---- MODULE Spec2Model ----
(***************************************************************************)
(* Results Classifier & Relay (src/results-ui/app.py): the GET /data       *)
(* handler get_benchmark_data, the process configuration it reads and the  *)
(* object store it fetches from.                                           *)
(*                                                                         *)
(* A stored object is modelled by what the three library calls of the      *)
(* handler make of it: bytes.decode('utf-8'), json.loads, yaml.safe_load   *)
(* and flask.jsonify.  The syntax classes are                              *)
(*   json       valid JSON that PyYAML also accepts                        *)
(*   json_only  valid JSON that PyYAML rejects (a tab between tokens, a    *)
(*              raw DEL character inside a string)                         *)
(*   json_deep  JSON nested deeper than the interpreter's recursion limit  *)
(*              (json.loads raises RecursionError)                         *)
(*   yaml       valid YAML that is not JSON                                *)
(*   yaml_ctor  YAML whose construction raises a non-YAML exception        *)
(*              (the scalar 2001-99-99 resolves to a timestamp: ValueError)*)
(*   bad        neither JSON nor YAML                                      *)
(*   not_utf8   bytes that are not UTF-8                                   *)
(***************************************************************************)
EXTENDS Naturals, Sequences, FiniteSets, TLC

\* Number of clients that call GET /data.
NumClients == 1

Clients == 1 .. NumClients

None == "<None>"

\* Python truthiness of an optional string: None and "" are falsy.
Falsy(x) == x \in {None, ""}

ObjectKeys == {"a.json", "b.yaml"}

\* request.args.get('file'): absent, empty, or a key.
FileParams == {None, ""} \cup ObjectKeys

TopKeys == {"results", "config", "benchmarks"}

\* A parsed document: a mapping with some of the top-level keys of interest
\* (next to any others), or a list whose items are those strings.  jsonable
\* says whether flask.jsonify can encode it: YAML can build sets and bytes.
DictValues == [kind : {"dict"}, keys : SUBSET TopKeys, jsonable : BOOLEAN]

ListValues == [kind : {"list"}, keys : {TopKeys}, jsonable : {TRUE}]

Values == DictValues \cup ListValues

NoValue == [kind |-> "none", keys |-> {}, jsonable |-> TRUE]

JsonSyntax == {"json", "json_only"}

YamlSyntax == {"json", "yaml"}

\* The objects a bucket can hold.
Objects ==
  {o \in [syntax : JsonSyntax \cup YamlSyntax, value : Values] :
      o.syntax \in JsonSyntax => o.value.jsonable}
  \cup [syntax : {"json_deep", "yaml_ctor", "bad", "not_utf8"}, value : {NoValue}]

NoObject == [syntax |-> "absent", value |-> NoValue]

S3States == {"ok", "no_credentials", "invalid_credentials", "unreachable"}

VARIABLES S3_BUCKET_NAME, s3_client, bucket, pc, file_key, file_content,
          events, responses

\* The prompt generator (src/guidellm-pipeline/generate-benchmark-prompts.py).
\* gen_pc            "loop" while the for loop runs, "done" after it
\* range_pos         how many values range(num_prompts) has handed out
\* loop_i            the loop variable i
\* rand_val          the draw of the iteration, in units of 1/Resolution
\* extra_spam_lines  the noise-line count of a huge record (0 in the other
\*                   branches, which never read it)
\* prompt_text       the prompt the iteration built
\* record            the record the iteration wrote
\* f_lines           the number of lines written to the file f; the last
\*                   line written is json.dumps(record)
VARIABLES gen_pc, range_pos, loop_i, rand_val, extra_spam_lines, prompt_text,
          record, f_lines

relayVars == <<S3_BUCKET_NAME, s3_client, bucket, pc, file_key, file_content,
               events, responses>>

genVars == <<gen_pc, range_pos, loop_i, rand_val, extra_spam_lines,
             prompt_text, record, f_lines>>

vars == <<S3_BUCKET_NAME, s3_client, bucket, pc, file_key, file_content,
          events, responses, gen_pc, range_pos, loop_i, rand_val,
          extra_spam_lines, prompt_text, record, f_lines>>

\* S3_BUCKET_NAME  the environment variable read at import (None when unset)
\* s3_client       what the client built at import meets when it is used:
\*                 working credentials and endpoint, no credentials at all,
\*                 credentials the store rejects, or an endpoint out of reach
\* bucket          the objects of the bucket, by key
\* pc              where each call of get_benchmark_data stands
\* file_key        the `file` parameter of each call
\* file_content    the decoded body each call has read, if any
\* events          the library calls each call has made, in order
\* responses       the responses each call has returned
TypeOK ==
  /\ S3_BUCKET_NAME \in {None, "results-bucket"}
  /\ s3_client \in S3States
  /\ bucket \in [ObjectKeys -> Objects \cup {NoObject}]
  /\ pc \in [Clients -> {"idle", "fetch", "json", "yaml", "done"}]
  /\ file_key \in [Clients -> FileParams]
  /\ \A c \in Clients :
       /\ Len(file_content[c]) <= 1
       /\ \A i \in 1 .. Len(file_content[c]) : file_content[c][i] \in Objects
       /\ \A i \in 1 .. Len(events[c]) :
            events[c][i] \in {"get_object", "json.loads", "yaml.safe_load"}
       /\ Len(responses[c]) <= 1

----------------------------------------------------------------------------
\* Library calls.

\* json.loads(file_content)
json_loads(text) ==
  IF text.syntax \in JsonSyntax THEN [exc |-> "", data |-> text.value]
  ELSE IF text.syntax = "json_deep" THEN [exc |-> "RecursionError", data |-> NoValue]
  ELSE [exc |-> "JSONDecodeError", data |-> NoValue]

\* yaml.safe_load(file_content)
yaml_safe_load(text) ==
  IF text.syntax \in YamlSyntax THEN [exc |-> "", data |-> text.value]
  ELSE IF text.syntax = "yaml_ctor" THEN [exc |-> "ValueError", data |-> NoValue]
  ELSE IF text.syntax = "json_deep" THEN [exc |-> "RecursionError", data |-> NoValue]
  ELSE [exc |-> "YAMLError", data |-> NoValue]

\* s3_client.get_object(Bucket=..., Key=key) followed by Body.read().decode
get_object(key) ==
  IF s3_client = "no_credentials" THEN [exc |-> "NoCredentialsError", code |-> "", text |-> NoObject]
  ELSE IF s3_client = "unreachable" THEN [exc |-> "EndpointConnectionError", code |-> "", text |-> NoObject]
  ELSE IF s3_client = "invalid_credentials" THEN [exc |-> "ClientError", code |-> "InvalidAccessKeyId", text |-> NoObject]
  ELSE IF bucket[key] = NoObject THEN [exc |-> "ClientError", code |-> "NoSuchKey", text |-> NoObject]
  ELSE IF bucket[key].syntax = "not_utf8" THEN [exc |-> "UnicodeDecodeError", code |-> "", text |-> NoObject]
  ELSE [exc |-> "", code |-> "", text |-> bucket[key]]

\* e.response['Error']['Message'] of a ClientError, as the store words it.
ErrorMessage(code) ==
  IF code = "NoSuchKey" THEN "The specified key does not exist."
  ELSE IF code = "InvalidAccessKeyId"
    THEN "The AWS Access Key Id you provided does not exist in our records."
  ELSE code

\* flask.jsonify(body): TRUE when the body can be encoded; otherwise TypeError.
jsonify_ok(body) == "data" \in DOMAIN body => body.data.jsonable

----------------------------------------------------------------------------
\* Responses of get_benchmark_data.

ErrorResponse(status, msg) == [status |-> status, body |-> [error |-> msg]]

\* Mutant: the envelope lacks fileName.
Envelope_NoFileName(fileType, data, key) ==
  [status |-> 200, body |-> [fileType |-> fileType, data |-> data]]

\* return jsonify({...}) with no explicit status: HTTP 200.
Envelope(fileType, data, key) ==
  [status |-> 200, body |-> [fileType |-> fileType, data |-> data, fileName |-> key]]

\* What a stage of the handler decides: ret says whether it returned.
Return(resp) == [ret |-> TRUE, resp |-> resp]

FallThrough == [ret |-> FALSE, resp |-> ErrorResponse(0, <<>>)]

MsgNoFile == <<"No 'file' parameter specified in URL.">>

MsgNotConfigured == <<"Server is not configured for S3 access.">>

MsgCredentials == <<"Server S3 credentials are invalid or missing.">>

MsgUnknown ==
  <<"Unknown file structure. Expected 'benchmarks' key (for YAML) or 'results' and 'config' keys (for JSON).">>

\* Mutant: the lm-eval check also asks that no 'benchmarks' key is present.
IsLmEval_NoBenchmarks(data) ==
  /\ data.kind = "dict" /\ "results" \in data.keys /\ "config" \in data.keys
  /\ "benchmarks" \notin data.keys

\* isinstance(data, dict) and 'results' in data and 'config' in data
IsLmEval(data) ==
  data.kind = "dict" /\ "results" \in data.keys /\ "config" \in data.keys

\* Mutant: the benchmark check without isinstance(data, dict).
IsBenchmark_NoDictCheck(data) == "benchmarks" \in data.keys

\* isinstance(data, dict) and 'benchmarks' in data
IsBenchmark(data) == data.kind = "dict" /\ "benchmarks" \in data.keys

\* Mutant: the configuration check is missing.
CheckRequest_NoConfigCheck(f) ==
  IF Falsy(f) THEN Return(ErrorResponse(400, MsgNoFile)) ELSE FallThrough

\* Mutant: the configuration check comes before the parameter check.
CheckRequest_ConfigFirst(f) ==
  IF Falsy(S3_BUCKET_NAME) \/ s3_client = None
    THEN Return(ErrorResponse(500, MsgNotConfigured))
  ELSE IF Falsy(f) THEN Return(ErrorResponse(400, MsgNoFile))
  ELSE FallThrough

\* Steps 1 and 2: the parameter check, then the configuration check.
CheckRequest(f) ==
  IF Falsy(f) THEN Return(ErrorResponse(400, MsgNoFile))
  ELSE IF Falsy(S3_BUCKET_NAME) \/ s3_client = None
    THEN Return(ErrorResponse(500, MsgNotConfigured))
  ELSE FallThrough

\* Mutant: every ClientError is reported as a missing file.
FetchOutcome_AllClientErrors404(r, key) ==
  IF r.exc = "" THEN FallThrough
  ELSE IF r.exc = "NoCredentialsError" THEN Return(ErrorResponse(500, MsgCredentials))
  ELSE IF r.exc = "ClientError"
    THEN Return(ErrorResponse(404, <<"File not found in S3 bucket: ", key>>))
  ELSE Return(ErrorResponse(500, <<"An unexpected error occurred: ", r.exc>>))

\* Step 3: the except clauses around get_object, for its result r.
FetchOutcome(r, key) ==
  IF r.exc = "" THEN FallThrough
  ELSE IF r.exc = "NoCredentialsError" THEN Return(ErrorResponse(500, MsgCredentials))
  ELSE IF r.exc = "ClientError"
    THEN IF r.code = "NoSuchKey"
           THEN Return(ErrorResponse(404, <<"File not found in S3 bucket: ", key>>))
           ELSE Return(ErrorResponse(500, <<"S3 Error: ", ErrorMessage(r.code)>>))
  ELSE Return(ErrorResponse(500, <<"An unexpected error occurred: ", r.exc>>))

\* Mutant: valid JSON of the wrong shape is answered at once, without the
\* YAML attempt.
JsonOutcome_ShortCircuit(text, key) ==
  LET r == json_loads(text) IN
  IF r.exc = "JSONDecodeError" THEN FallThrough
  ELSE IF r.exc # ""
    THEN Return(ErrorResponse(500, <<"Error during JSON processing: ", r.exc>>))
  ELSE IF IsLmEval(r.data) THEN Return(Envelope("lm-eval", r.data, key))
  ELSE Return(ErrorResponse(400, MsgUnknown))

\* Mutant: JSONDecodeError is caught by the general except clause.
JsonOutcome_DecodeErrorIs500(text, key) ==
  LET r == json_loads(text) IN
  IF r.exc # ""
    THEN Return(ErrorResponse(500, <<"Error during JSON processing: ", r.exc>>))
  ELSE IF IsLmEval(r.data) THEN Return(Envelope("lm-eval", r.data, key))
  ELSE FallThrough

\* Mutant: the lm-eval branch builds the envelope but does not return it.
JsonOutcome_NoReturn(text, key) ==
  LET r == json_loads(text) IN
  IF r.exc \notin {"", "JSONDecodeError"}
    THEN Return(ErrorResponse(500, <<"Error during JSON processing: ", r.exc>>))
  ELSE FallThrough

\* Step 4: json.loads, the lm-eval check and its except clauses.
JsonOutcome(text, key) ==
  LET r == json_loads(text) IN
  IF r.exc = "JSONDecodeError" THEN FallThrough
  ELSE IF r.exc # ""
    THEN Return(ErrorResponse(500, <<"Error during JSON processing: ", r.exc>>))
  ELSE IF IsLmEval(r.data)
    THEN IF jsonify_ok(Envelope("lm-eval", r.data, key).body)
           THEN Return(Envelope("lm-eval", r.data, key))
           ELSE Return(ErrorResponse(500, <<"Error during JSON processing: ", "TypeError">>))
  ELSE FallThrough

\* Mutant: the final return carries status 500.
YamlOutcome_UnknownIs500(text, key) ==
  LET r == yaml_safe_load(text) IN
  IF r.exc = "YAMLError"
    THEN Return(ErrorResponse(500, <<"Error parsing YAML file: ", r.exc>>))
  ELSE IF r.exc # ""
    THEN Return(ErrorResponse(500, <<"Error during YAML processing: ", r.exc>>))
  ELSE IF IsBenchmark(r.data)
    THEN IF jsonify_ok(Envelope("benchmark", r.data, key).body)
           THEN Return(Envelope("benchmark", r.data, key))
           ELSE Return(ErrorResponse(500, <<"Error during YAML processing: ", "TypeError">>))
  ELSE Return(ErrorResponse(500, MsgUnknown))

\* Mutant: the YAML stage also accepts the lm-eval shape.
YamlOutcome_AlsoLmEval(text, key) ==
  LET r == yaml_safe_load(text) IN
  IF r.exc = "YAMLError"
    THEN Return(ErrorResponse(500, <<"Error parsing YAML file: ", r.exc>>))
  ELSE IF r.exc # ""
    THEN Return(ErrorResponse(500, <<"Error during YAML processing: ", r.exc>>))
  ELSE IF IsBenchmark(r.data)
    THEN IF jsonify_ok(Envelope("benchmark", r.data, key).body)
           THEN Return(Envelope("benchmark", r.data, key))
           ELSE Return(ErrorResponse(500, <<"Error during YAML processing: ", "TypeError">>))
  ELSE IF IsLmEval(r.data) /\ r.data.jsonable
    THEN Return(Envelope("lm-eval", r.data, key))
  ELSE Return(ErrorResponse(400, MsgUnknown))

\* Steps 5 and 6: yaml.safe_load, the benchmark check, its except clauses and
\* the final return.
YamlOutcome(text, key) ==
  LET r == yaml_safe_load(text) IN
  IF r.exc = "YAMLError"
    THEN Return(ErrorResponse(500, <<"Error parsing YAML file: ", r.exc>>))
  ELSE IF r.exc # ""
    THEN Return(ErrorResponse(500, <<"Error during YAML processing: ", r.exc>>))
  ELSE IF IsBenchmark(r.data)
    THEN IF jsonify_ok(Envelope("benchmark", r.data, key).body)
           THEN Return(Envelope("benchmark", r.data, key))
           ELSE Return(ErrorResponse(500, <<"Error during YAML processing: ", "TypeError">>))
  ELSE Return(ErrorResponse(400, MsgUnknown))

----------------------------------------------------------------------------
\* The prompt generator.
\*
\* A Python string is a sequence of pieces.  A piece is a run of whitespace
\* (a newline, an indentation) or a run of text that starts and ends with a
\* character that is not whitespace; every occurrence of the identifier that
\* the long branch rewrites is a piece of its own.  The length of a string is
\* the sum of the lengths of its pieces.

num_prompts == 100

\* random.random() is drawn from the grid {0, 1/Resolution, ...} of [0, 1).
Resolution == 10

Draws == 0 .. Resolution - 1

short_prompts ==
  << <<"list pods">>,
     <<"check db status">>,
     <<"hello">>,
     <<"what's the weather in denver?">>,
     <<"delete user 4091">>,
     <<"show routes">>,
     <<"get logs for pod-abc-123">>,
     <<"who is online?">>,
     <<"reboot server-main-db">>,
     <<"what is 2+2?">> >>

medium_prompts ==
  << <<"Explain the difference between a Kubernetes Deployment and a StatefulSet.">>,
     <<"How do I configure a Tekton EventListener for a GitHub webhook?">>,
     <<"Write a Python function to parse a JSON file and return a list of all top-level keys.">>,
     <<"What are the pros and cons of using vLLM vs. TGI for inference serving?">>,
     <<"Summarize the following text: [placeholder for a 3-paragraph article]">>,
     <<"My OpenShift build is failing. What does the 'ImagePullBackOff' error mean?">>,
     <<"Translate this to German: 'My CI/CD pipeline is broken and I need to fix it before the demo.'">> >>

long_yaml_example ==
  << "\n",
     "Please analyze this Tekton Task YAML for any syntax errors or best-practice violations:", "\n",
     "apiVersion: tekton.dev/v1", "\n",
     "kind: Task", "\n",
     "metadata:", "\n",
     "  ", "name:", " ", "deploy-using-helm", "\n",
     "spec:", "\n",
     "  ", "params:", "\n",
     "    ", "- name: helm-chart-path", "\n",
     "      ", "description: The path to the helm chart", "\n",
     "      ", "type: string", "\n",
     "    ", "- name: release-name", "\n",
     "      ", "description: The name of the release", "\n",
     "      ", "type: string", "\n",
     "  ", "steps:", "\n",
     "    ", "- name: helm-deploy", "\n",
     "      ", "image: \"alpine/helm:3.10.0\"", "\n",
     "      ", "script: |", "\n",
     "        ", "#!/usr/bin/env sh", "\n",
     "        ", "echo \"Deploying $(params.release-name) from $(params.helm-chart-path)...\"", "\n" >>

\* The one-character line of the huge template, a grave accent, which a
\* string of this language cannot hold: a piece of the same length.
BACKTICK == "^"

huge_stack_trace_example ==
  << "\n",
     "My application is crashing in production. Analyze this full stack trace and tell me the root cause.", "\n",
     BACKTICK, "\n",
     "Traceback (most recent call last):", "\n",
     "  ", "File \"/opt/app-root/src/main.py\", line 215, in <module>", "\n",
     "    ", "main()", "\n",
     "  ", "File \"/opt/app-root/src/main.py\", line 198, in main", "\n",
     "    ", "db.connect(os.environ.get('DATABASE_URL'))", "\n",
     "  ", "File \"/opt/app-root/lib/python3.9/site-packages/db_client/connector.py\", line 89, in _try_connect", "\n",
     "    ", "raise ConnectionTimeoutError(f\"Failed to connect to {host} after {retries} attempts\")", "\n",
     "db_client.errors.ConnectionTimeoutError: Failed to connect to db.production.svc.cluster.local after 3 attempts", "\n",
     "... (stack trace continues)", "\n",
     "...", "\n",
     "Last error received from driver:", "\n",
     "psycopg2.OperationalError: could not connect to server: Connection refused", "\n",
     BACKTICK, "\n" >>

\* "\n... (simulated repeating log noise)..."
noise_line == << "\n", "... (simulated repeating log noise)..." >>

\* random.randint(5, 50)
SpamCounts == 5 .. 50

\* The whitespace pieces of the templates.
IsSpace(p) == p \in {"\n", " ", "  ", "    ", "      ", "        "}

RECURSIVE lstrip(_)
lstrip(s) == IF s # <<>> /\ IsSpace(Head(s)) THEN lstrip(Tail(s)) ELSE s

RECURSIVE rstrip(_)
rstrip(s) ==
  IF s # <<>> /\ IsSpace(s[Len(s)]) THEN rstrip(SubSeq(s, 1, Len(s) - 1)) ELSE s

\* Mutant: only the leading whitespace is removed.
strip_LeadingOnly(s) == lstrip(s)

\* str.strip()
strip(s) == rstrip(lstrip(s))

\* str.replace(old, new), for an old that occurs as pieces of its own.
replace(s, old, new) == [j \in 1 .. Len(s) |-> IF s[j] = old THEN new ELSE s[j]]

\* str * k
RECURSIVE repeat(_, _)
repeat(s, k) == IF k = 0 THEN <<>> ELSE s \o repeat(s, k - 1)

\* len(str)
RECURSIVE len(_)
len(s) ==
  IF s = <<>> THEN 0
  ELSE IF Len(s) = 1 THEN Len(s[1])
  ELSE LET h == Len(s) \div 2 IN
       len(SubSeq(s, 1, h)) + len(SubSeq(s, h + 1, Len(s)))

Digit(d) == <<"0", "1", "2", "3", "4", "5", "6", "7", "8", "9">>[d + 1]

RECURSIVE Decimal(_)
Decimal(n) == IF n < 10 THEN Digit(n) ELSE Decimal(n \div 10) \o Digit(n % 10)

RECURSIVE ZeroPad(_, _)
ZeroPad(str, w) == IF Len(str) >= w THEN str ELSE ZeroPad("0" \o str, w)

\* Mutant: the index is formatted without padding, f"{i}".
format_03d_NoPad(n) == Decimal(n)

\* f"{i:03d}"
format_03d(n) == ZeroPad(Decimal(n), 3)

\* long_yaml_example.replace("deploy-using-helm", f"deploy-using-helm-{i:03d}")
LongPrompt(n) ==
  replace(long_yaml_example, "deploy-using-helm",
          "deploy-using-helm-" \o format_03d(n))

\* Mutant: the template is left out, prompt_text = extra_spam.
HugePrompt_NoiseOnly(k) == repeat(noise_line, k)

\* huge_stack_trace_example + extra_spam
HugePrompt(k) == huge_stack_trace_example \o repeat(noise_line, k)

\* Mutant: the comparisons are <= instead of <.
SizeClass_Inclusive(r) ==
  IF r * 100 <= 40 * Resolution THEN "short"
  ELSE IF r * 100 <= 75 * Resolution THEN "medium"
  ELSE IF r * 100 <= 90 * Resolution THEN "long"
  ELSE "huge"

\* The if/elif chain over rand_val = r / Resolution.
SizeClass(r) ==
  IF r * 100 < 40 * Resolution THEN "short"
  ELSE IF r * 100 < 75 * Resolution THEN "medium"
  ELSE IF r * 100 < 90 * Resolution THEN "long"
  ELSE "huge"

Pool(seq) == {seq[j] : j \in 1 .. Len(seq)}

\* Before the loop: nothing is bound and the file is open and empty.
GenInit ==
  /\ gen_pc = "loop"
  /\ range_pos = 0
  /\ loop_i = 0
  /\ rand_val = 0
  /\ extra_spam_lines = 0
  /\ prompt_text = <<>>
  /\ record = [prompt |-> <<>>]
  /\ f_lines = 0

\* One iteration of the for loop, for the draw r: the branch builds
\* prompt_text, the record holds it stripped, and one line is written.
Iteration(r) ==
  /\ gen_pc = "loop"
  /\ range_pos < num_prompts
  /\ loop_i' = range_pos
  /\ range_pos' = range_pos + 1
  /\ rand_val' = r
  /\ \/ /\ SizeClass(r) = "short"
        /\ prompt_text' \in Pool(short_prompts)
        /\ extra_spam_lines' = 0
     \/ /\ SizeClass(r) = "medium"
        /\ prompt_text' \in Pool(medium_prompts)
        /\ extra_spam_lines' = 0
     \/ /\ SizeClass(r) = "long"
        /\ prompt_text' = LongPrompt(range_pos)
        /\ extra_spam_lines' = 0
     \/ /\ SizeClass(r) = "huge"
        /\ extra_spam_lines' \in SpamCounts
        /\ prompt_text' = HugePrompt(extra_spam_lines')
  /\ record' = [prompt |-> strip(prompt_text')]
  /\ f_lines' = f_lines + 1
  /\ UNCHANGED gen_pc
  /\ UNCHANGED relayVars

\* range(num_prompts) is exhausted: the file is closed.
LoopExit ==
  /\ gen_pc = "loop"
  /\ range_pos = num_prompts
  /\ gen_pc' = "done"
  /\ UNCHANGED <<range_pos, loop_i, rand_val, extra_spam_lines, prompt_text,
                 record, f_lines>>
  /\ UNCHANGED relayVars

\* The generator runs alone: the relay is not part of its process.
InitGen ==
  /\ S3_BUCKET_NAME = None
  /\ s3_client = "ok"
  /\ bucket = [k \in ObjectKeys |-> NoObject]
  /\ pc = [c \in Clients |-> "idle"]
  /\ file_key = [c \in Clients |-> None]
  /\ file_content = [c \in Clients |-> <<>>]
  /\ events = [c \in Clients |-> <<>>]
  /\ responses = [c \in Clients |-> <<>>]
  /\ GenInit

NextGen ==
  \/ \E r \in Draws : Iteration(r)
  \/ LoopExit

SpecGen == InitGen /\ [][NextGen]_vars

----------------------------------------------------------------------------
\* The handler, one action per step that other requests can interleave with.

Init ==
  /\ S3_BUCKET_NAME \in {None, "results-bucket"}
  /\ s3_client \in S3States
  /\ bucket \in [ObjectKeys -> Objects \cup {NoObject}]
  /\ pc = [c \in Clients |-> "idle"]
  /\ file_key = [c \in Clients |-> None]
  /\ file_content = [c \in Clients |-> <<>>]
  /\ events = [c \in Clients |-> <<>>]
  /\ responses = [c \in Clients |-> <<>>]
  /\ GenInit

\* A client calls GET /data?file=f: steps 1 and 2.
Request(c, f) ==
  /\ pc[c] = "idle"
  /\ file_key' = [file_key EXCEPT ![c] = f]
  /\ IF CheckRequest(f).ret
       THEN /\ responses' = [responses EXCEPT ![c] = Append(@, CheckRequest(f).resp)]
            /\ pc' = [pc EXCEPT ![c] = "done"]
       ELSE /\ pc' = [pc EXCEPT ![c] = "fetch"]
            /\ UNCHANGED responses
  /\ UNCHANGED <<S3_BUCKET_NAME, s3_client, bucket, file_content, events>>
  /\ UNCHANGED genVars

\* Mutant: an in-process cache; a call reuses the body another call has read
\* for the same key instead of reading the store.
Fetch_Cached(c) ==
  /\ pc[c] = "fetch"
  /\ events' = [events EXCEPT ![c] = Append(@, "get_object")]
  /\ LET hits == {d \in DOMAIN pc : /\ d # c /\ file_key[d] = file_key[c]
                                     /\ file_content[d] # <<>>}
         r == get_object(file_key[c])
         o == FetchOutcome(r, file_key[c]) IN
     IF hits # {}
       THEN /\ file_content' =
                 [file_content EXCEPT ![c] = file_content[CHOOSE d \in hits : TRUE]]
            /\ pc' = [pc EXCEPT ![c] = "json"]
            /\ UNCHANGED responses
     ELSE IF o.ret
       THEN /\ responses' = [responses EXCEPT ![c] = Append(@, o.resp)]
            /\ pc' = [pc EXCEPT ![c] = "done"]
            /\ UNCHANGED file_content
       ELSE /\ file_content' = [file_content EXCEPT ![c] = <<r.text>>]
            /\ pc' = [pc EXCEPT ![c] = "json"]
            /\ UNCHANGED responses
  /\ UNCHANGED <<S3_BUCKET_NAME, s3_client, bucket, file_key>>
  /\ UNCHANGED genVars

\* Step 3: s3_client.get_object and the decoding of the body.
Fetch(c) ==
  /\ pc[c] = "fetch"
  /\ events' = [events EXCEPT ![c] = Append(@, "get_object")]
  /\ LET r == get_object(file_key[c])
         o == FetchOutcome(r, file_key[c]) IN
     IF o.ret
       THEN /\ responses' = [responses EXCEPT ![c] = Append(@, o.resp)]
            /\ pc' = [pc EXCEPT ![c] = "done"]
            /\ UNCHANGED file_content
       ELSE /\ file_content' = [file_content EXCEPT ![c] = <<r.text>>]
            /\ pc' = [pc EXCEPT ![c] = "json"]
            /\ UNCHANGED responses
  /\ UNCHANGED <<S3_BUCKET_NAME, s3_client, bucket, file_key>>
  /\ UNCHANGED genVars

\* Step 4: the JSON attempt.
JsonStage(c) ==
  /\ pc[c] = "json"
  /\ events' = [events EXCEPT ![c] = Append(@, "json.loads")]
  /\ LET o == JsonOutcome(file_content[c][1], file_key[c]) IN
     IF o.ret
       THEN /\ responses' = [responses EXCEPT ![c] = Append(@, o.resp)]
            /\ pc' = [pc EXCEPT ![c] = "done"]
       ELSE /\ pc' = [pc EXCEPT ![c] = "yaml"]
            /\ UNCHANGED responses
  /\ UNCHANGED <<S3_BUCKET_NAME, s3_client, bucket, file_key, file_content>>
  /\ UNCHANGED genVars

\* Steps 5 and 6: the YAML attempt and the final error.
YamlStage(c) ==
  /\ pc[c] = "yaml"
  /\ events' = [events EXCEPT ![c] = Append(@, "yaml.safe_load")]
  /\ LET o == YamlOutcome(file_content[c][1], file_key[c]) IN
     /\ responses' = [responses EXCEPT ![c] = Append(@, o.resp)]
     /\ pc' = [pc EXCEPT ![c] = "done"]
  /\ UNCHANGED <<S3_BUCKET_NAME, s3_client, bucket, file_key, file_content>>
  /\ UNCHANGED genVars

Next ==
  \/ \E c \in Clients, f \in FileParams : Request(c, f)
  \/ \E c \in Clients : Fetch(c)
  \/ \E c \in Clients : JsonStage(c)
  \/ \E c \in Clients : YamlStage(c)

Spec == Init /\ [][Next]_vars

----------------------------------------------------------------------------
\* Simultaneous clients: one more than Spec has, so that calls interleave, and
\* a writer outside the relay that replaces or deletes objects of the bucket
\* while calls are in flight.

ConcClients == 1 .. NumClients + 1

\* The objects the writer stores: an lm-eval result, a benchmark report and a
\* text that is neither JSON nor YAML.
ConcObjects ==
  { [syntax |-> "json",
     value |-> [kind |-> "dict", keys |-> {"results", "config"}, jsonable |-> TRUE]],
    [syntax |-> "yaml",
     value |-> [kind |-> "dict", keys |-> {"benchmarks"}, jsonable |-> TRUE]],
    [syntax |-> "bad", value |-> NoValue] }

InitConc ==
  /\ S3_BUCKET_NAME \in {None, "results-bucket"}
  /\ s3_client \in S3States
  /\ bucket \in [ObjectKeys -> ConcObjects \cup {NoObject}]
  /\ pc = [c \in ConcClients |-> "idle"]
  /\ file_key = [c \in ConcClients |-> None]
  /\ file_content = [c \in ConcClients |-> <<>>]
  /\ events = [c \in ConcClients |-> <<>>]
  /\ responses = [c \in ConcClients |-> <<>>]
  /\ GenInit

\* The writer stores object o under key k, or deletes the key (o = NoObject).
PutObject(k, o) ==
  /\ bucket[k] # o
  /\ bucket' = [bucket EXCEPT ![k] = o]
  /\ UNCHANGED <<S3_BUCKET_NAME, s3_client, pc, file_key, file_content,
                 events, responses>>
  /\ UNCHANGED genVars

NextConc ==
  \/ \E c \in ConcClients, f \in FileParams : Request(c, f)
  \/ \E c \in ConcClients : Fetch(c)
  \/ \E c \in ConcClients : JsonStage(c)
  \/ \E c \in ConcClients : YamlStage(c)
  \/ \E k \in ObjectKeys, o \in ConcObjects \cup {NoObject} : PutObject(k, o)

SpecConc == InitConc /\ [][NextConc]_vars

----------------------------------------------------------------------------
\* Properties of GET /data.

Done(c) == pc[c] = "done"

\* The one response of a finished call.
Resp(c) == responses[c][1]

\* The object-store read of the call succeeded: file_content is bound.
Retrieved(c) == file_content[c] # <<>>

Text(c) == file_content[c][1]

\* The two shapes of the glossary, stated on a parsed document.
HasLmEvalShape(d) == d.kind = "dict" /\ {"results", "config"} \subseteq d.keys

HasBenchmarkShape(d) == d.kind = "dict" /\ "benchmarks" \in d.keys

Attempted(c, e) == \E i \in 1 .. Len(events[c]) : events[c][i] = e

\* C1: a retrieved text that parses as JSON to a mapping with both `results`
\* and `config` (with or without `benchmarks`) is answered 200 with
\* fileType "lm-eval", data the full parsed document and fileName the
\* requested key.
C1_JsonLmEvalEnvelope ==
  \A c \in Clients :
    (/\ Done(c) /\ Retrieved(c)
     /\ Text(c).syntax \in JsonSyntax
     /\ HasLmEvalShape(Text(c).value))
    => Resp(c) = [status |-> 200,
                  body |-> [fileType |-> "lm-eval", data |-> Text(c).value,
                            fileName |-> file_key[c]]]

C1_Witness ==
  \E c \in Clients :
    /\ Done(c) /\ Retrieved(c)
    /\ Text(c).syntax \in JsonSyntax
    /\ Text(c).value.kind = "dict" /\ Text(c).value.keys = TopKeys
    /\ Resp(c).status = 200 /\ Resp(c).body.fileType = "lm-eval"
    /\ Resp(c).body.fileName = "b.yaml"

\* C2 as stated: every retrieved document, written as YAML or as JSON, that
\* parses to a mapping with `benchmarks` and without the `results`+`config`
\* pair is answered 200 with fileType "benchmark".
C2_AsStated ==
  \A c \in Clients :
    (/\ Done(c) /\ Retrieved(c)
     /\ Text(c).syntax \in JsonSyntax \cup YamlSyntax
     /\ HasBenchmarkShape(Text(c).value)
     /\ ~HasLmEvalShape(Text(c).value))
    => (Resp(c).status = 200 /\ Resp(c).body.fileType = "benchmark")

\* C2 (amended): a retrieved document that yaml.safe_load parses to a
\* JSON-encodable mapping with `benchmarks` and without the `results`+`config`
\* pair is answered 200 with fileType "benchmark", the parsed document and
\* the requested key.  A valid JSON document that fails the lm-eval check is
\* always handed to the YAML attempt; it is answered 500 exactly when the
\* YAML parser rejects the text and 400 exactly when the YAML parser accepts
\* it and the benchmark check fails.
C2_YamlBenchmarkEnvelope ==
  \A c \in Clients :
    (Done(c) /\ Retrieved(c)) =>
      /\ (/\ Text(c).syntax \in YamlSyntax
          /\ Text(c).value.jsonable
          /\ HasBenchmarkShape(Text(c).value)
          /\ ~HasLmEvalShape(Text(c).value))
         => Resp(c) = [status |-> 200,
                       body |-> [fileType |-> "benchmark", data |-> Text(c).value,
                                 fileName |-> file_key[c]]]
      /\ (Text(c).syntax \in JsonSyntax /\ ~HasLmEvalShape(Text(c).value))
         => /\ Attempted(c, "yaml.safe_load")
            /\ Resp(c).status \in {200, 400, 500}
            /\ Resp(c).status = 500 <=> Text(c).syntax \notin YamlSyntax
            /\ Resp(c).status = 400 <=>
                 (Text(c).syntax \in YamlSyntax /\ ~HasBenchmarkShape(Text(c).value))

C2_Witness ==
  \E c \in Clients :
    /\ Done(c) /\ Retrieved(c)
    /\ Text(c).syntax = "json"
    /\ Text(c).value.kind = "dict" /\ Text(c).value.keys = {"benchmarks", "config"}
    /\ Resp(c).status = 200 /\ Resp(c).body.fileType = "benchmark"
    /\ events[c] = <<"get_object", "json.loads", "yaml.safe_load">>

\* C3 as stated: in every success envelope fileType is "lm-eval" exactly when
\* data has the lm-eval shape and "benchmark" exactly when data has the
\* benchmark shape.
C3_AsStated ==
  \A c \in Clients :
    (Done(c) /\ Resp(c).status = 200) =>
      /\ Resp(c).body.fileType = "lm-eval" <=> HasLmEvalShape(Resp(c).body.data)
      /\ Resp(c).body.fileType = "benchmark" <=> HasBenchmarkShape(Resp(c).body.data)

\* C3 (amended): in every success envelope the shape named by fileType holds
\* of data (fileType "lm-eval": a mapping with `results` and `config`;
\* fileType "benchmark": a mapping with `benchmarks`), and fileType is
\* determined by the shape, in both directions, for every data that does not
\* have both shapes at once.
C3_FileTypeImpliesShape ==
  \A c \in Clients :
    (Done(c) /\ Resp(c).status = 200) =>
      LET ft == Resp(c).body.fileType
          d == Resp(c).body.data IN
      /\ ft \in {"lm-eval", "benchmark"}
      /\ ft = "lm-eval" => HasLmEvalShape(d)
      /\ ft = "benchmark" => HasBenchmarkShape(d)
      /\ ~(HasLmEvalShape(d) /\ HasBenchmarkShape(d)) =>
           /\ ft = "lm-eval" <=> HasLmEvalShape(d)
           /\ ft = "benchmark" <=> HasBenchmarkShape(d)

C3_Witness ==
  \E c \in Clients :
    /\ Done(c) /\ Resp(c).status = 200
    /\ Resp(c).body.fileType = "lm-eval"
    /\ HasBenchmarkShape(Resp(c).body.data)

\* C4: a retrieved document that parses without error and has neither the
\* lm-eval shape nor the benchmark shape is answered 400 with the "unknown
\* file structure" message, which names both shapes; never 200, never 500.
C4_UnknownStructureIs400 ==
  \A c \in Clients :
    (/\ Done(c) /\ Retrieved(c)
     /\ Text(c).syntax \in YamlSyntax
     /\ ~HasLmEvalShape(Text(c).value)
     /\ ~HasBenchmarkShape(Text(c).value))
    => Resp(c) = [status |-> 400, body |-> [error |-> MsgUnknown]]

C4_Witness ==
  \E c \in Clients :
    /\ Done(c) /\ Retrieved(c)
    /\ Text(c).syntax = "json"
    /\ Text(c).value.kind = "dict" /\ Text(c).value.keys = {}
    /\ Resp(c).status = 400
    /\ events[c] = <<"get_object", "json.loads", "yaml.safe_load">>

\* An error message about credentials: the handler's own, or the store's
\* message of an authentication error relayed under "S3 Error: ".
AuthRelated(msg) ==
  \/ msg = <<"Server S3 credentials are invalid or missing.">>
  \/ msg = <<"S3 Error: ",
             "The AWS Access Key Id you provided does not exist in our records.">>

\* C5: a failed retrieval never reaches the parse stages and is answered 404
\* for a missing object, 500 with a credentials message for a credential
\* failure, and 500 with the generic message for any other failure.
C5_RetrievalFailures ==
  \A c \in Clients :
    (Done(c) /\ Attempted(c, "get_object") /\ ~Retrieved(c)) =>
      /\ events[c] = <<"get_object">>
      /\ "error" \in DOMAIN Resp(c).body
      /\ IF s3_client \in {"no_credentials", "invalid_credentials"}
           THEN Resp(c).status = 500 /\ AuthRelated(Resp(c).body.error)
         ELSE IF s3_client = "ok" /\ bucket[file_key[c]] = NoObject
           THEN /\ Resp(c).status = 404
                /\ Resp(c).body.error = <<"File not found in S3 bucket: ", file_key[c]>>
         ELSE /\ Resp(c).status = 500
              /\ Resp(c).body.error[1] = "An unexpected error occurred: "

C5_Witness ==
  \E c \in Clients :
    /\ Done(c) /\ Attempted(c, "get_object") /\ ~Retrieved(c)
    /\ s3_client = "invalid_credentials"
    /\ bucket[file_key[c]] # NoObject
    /\ Resp(c).status = 500

\* C6 as stated (for a call that passed the parameter check): whenever the
\* store is unconfigured or unreachable the call is answered with the 500
\* misconfiguration error and get_object is never attempted.
C6_AsStated ==
  \A c \in Clients :
    (/\ Done(c) /\ ~Falsy(file_key[c])
     /\ (Falsy(S3_BUCKET_NAME) \/ s3_client \in {"no_credentials", "unreachable"}))
    => /\ Resp(c) = [status |-> 500, body |-> [error |-> MsgNotConfigured]]
       /\ ~Attempted(c, "get_object")

\* C6 (amended): for a call with a non-empty `file` parameter, an unset bucket
\* name is answered with the 500 misconfiguration error before get_object is
\* attempted; with the bucket name set, missing credentials or an unreachable
\* store are found only by the get_object attempt and answered with its 500
\* retrieval error.
C6_UnsetBucketRejectedBeforeFetch ==
  \A c \in Clients :
    (Done(c) /\ ~Falsy(file_key[c])) =>
      /\ Falsy(S3_BUCKET_NAME) =>
           /\ Resp(c) = [status |-> 500, body |-> [error |-> MsgNotConfigured]]
           /\ events[c] = <<>>
      /\ (~Falsy(S3_BUCKET_NAME) /\ s3_client \in {"no_credentials", "unreachable"}) =>
           /\ events[c] = <<"get_object">>
           /\ Resp(c).status = 500
           /\ Resp(c).body.error # MsgNotConfigured

C6_Witness ==
  \E c \in Clients :
    /\ Done(c) /\ file_key[c] = "a.json"
    /\ Falsy(S3_BUCKET_NAME) /\ s3_client = "unreachable"
    /\ Resp(c).status = 500 /\ events[c] = <<>>

\* C7: a call whose `file` parameter is absent or empty is answered 400,
\* whatever the configuration, with no store read and no parse attempt.
C7_MissingFileIs400 ==
  \A c \in Clients :
    (Done(c) /\ Falsy(file_key[c])) =>
      /\ Resp(c) = [status |-> 400, body |-> [error |-> MsgNoFile]]
      /\ events[c] = <<>>
      /\ ~Retrieved(c)

C7_Witness ==
  \E c \in Clients :
    /\ Done(c) /\ file_key[c] = ""
    /\ Falsy(S3_BUCKET_NAME)
    /\ Resp(c).status = 400

\* C8: a retrieved text on which json.loads raises JSONDecodeError is never
\* answered by the JSON stage: the call goes on to the YAML attempt; when the
\* YAML parser raises a syntax error as well, the answer is 500 with the
\* YAML parse-error message.
C8_InvalidJsonAndYamlIs500 ==
  \A c \in Clients :
    (/\ Retrieved(c) /\ Attempted(c, "json.loads")
     /\ json_loads(Text(c)).exc = "JSONDecodeError")
    => /\ \/ pc[c] = "yaml" /\ responses[c] = <<>>
          \/ Done(c) /\ Attempted(c, "yaml.safe_load")
       /\ (Done(c) /\ yaml_safe_load(Text(c)).exc = "YAMLError") =>
            /\ Resp(c).status = 500
            /\ Resp(c).body.error = <<"Error parsing YAML file: ", "YAMLError">>

C8_Witness ==
  \E c \in Clients :
    /\ Done(c) /\ Retrieved(c)
    /\ Text(c).syntax = "bad"
    /\ Resp(c).status = 500
    /\ events[c] = <<"get_object", "json.loads", "yaml.safe_load">>

\* C9: a call has no response until it ends and exactly one when it has
\* ended; the response is a 200 envelope {fileType, data, fileName} with
\* fileType "lm-eval" or "benchmark" and fileName the requested key, or an
\* {error} body with status 400, 404 or 500; a call that has not ended can
\* take its next step.
C9_OneWellFormedResponse ==
  \A c \in Clients :
    /\ Len(responses[c]) = (IF Done(c) THEN 1 ELSE 0)
    /\ pc[c] \in {"fetch", "json", "yaml"} =>
         ENABLED (Fetch(c) \/ JsonStage(c) \/ YamlStage(c))
    /\ Done(c) =>
         \/ /\ Resp(c).status = 200
            /\ DOMAIN Resp(c).body = {"fileType", "data", "fileName"}
            /\ Resp(c).body.fileType \in {"lm-eval", "benchmark"}
            /\ Resp(c).body.fileName = file_key[c]
         \/ /\ Resp(c).status \in {400, 404, 500}
            /\ DOMAIN Resp(c).body = {"error"}

C9_Witness ==
  \E c \in Clients :
    /\ Done(c) /\ Resp(c).status = 404
    /\ DOMAIN Resp(c).body = {"error"}

\* The order of a call's events.
C10_EventOrder ==
  \A c \in Clients :
    /\ events[c] \in {<<>>, <<"get_object">>, <<"get_object", "json.loads">>,
                      <<"get_object", "json.loads", "yaml.safe_load">>}
    /\ Len(events[c]) >= 2 => Retrieved(c)
    /\ Retrieved(c) => Attempted(c, "get_object")
    /\ Attempted(c, "yaml.safe_load") =>
         /\ json_loads(Text(c)).exc \in {"", "JSONDecodeError"}
         /\ ~(json_loads(Text(c)).exc = ""
              /\ HasLmEvalShape(json_loads(Text(c)).data))

\* C10: within a call at most one object-store read happens, before any
\* parse; parsing starts only after a successful read; at most two parse
\* attempts follow, JSON then YAML, the YAML one only if the JSON stage did
\* not return; and no step of a call changes the store.
C10_ReadThenParseNoWrite ==
  /\ [] C10_EventOrder
  /\ [][(\E c \in Clients :
           \/ \E f \in FileParams : Request(c, f)
           \/ Fetch(c) \/ JsonStage(c) \/ YamlStage(c))
        => bucket' = bucket]_vars

C10_Witness ==
  \E c \in Clients :
    /\ Done(c)
    /\ events[c] = <<"get_object", "json.loads", "yaml.safe_load">>
    /\ Text(c).syntax = "json"
    /\ Resp(c).status = 200

\* C16: an lm-eval envelope is returned only for a text that is valid JSON;
\* a text that is valid YAML but not valid JSON and parses to a mapping with
\* `results` and `config` and without `benchmarks` is answered with the 400
\* unknown-structure error.
C16_LmEvalOnlyThroughJson ==
  \A c \in Clients :
    (Done(c) /\ Retrieved(c)) =>
      /\ (Resp(c).status = 200 /\ Resp(c).body.fileType = "lm-eval")
           => Text(c).syntax \in JsonSyntax
      /\ (/\ Text(c).syntax = "yaml"
          /\ HasLmEvalShape(Text(c).value)
          /\ ~HasBenchmarkShape(Text(c).value))
           => Resp(c) = [status |-> 400, body |-> [error |-> MsgUnknown]]

C16_Witness ==
  \E c \in Clients :
    /\ Done(c) /\ Retrieved(c)
    /\ Text(c).syntax = "yaml"
    /\ Text(c).value.kind = "dict" /\ Text(c).value.keys = {"results", "config"}
    /\ Text(c).value.jsonable
    /\ Resp(c).status = 400

\* Two finished calls with the same key and the same read (none, or the same
\* body) have the same response: the response is a function of the key, the
\* configuration and what the call's own read returned.
C11_SameInputsSameResponse ==
  \A c, d \in ConcClients :
    (/\ Done(c) /\ Done(d)
     /\ file_key[c] = file_key[d]
     /\ file_content[c] = file_content[d]
     /\ events[c] = <<>> \/ Retrieved(c)
     /\ events[d] = <<>> \/ Retrieved(d))
    => Resp(c) = Resp(d)

\* What one step does to each call: the read of a call returns what the store
\* holds under the call's key at that moment; a step of another call or of
\* the writer changes nothing of this call; a body once read and a response
\* once returned stay; a step of a call changes neither the store nor the
\* configuration.
C11_StepIsolation ==
  \A c \in ConcClients :
    /\ (pc[c] = "fetch" /\ pc'[c] # "fetch") =>
         LET o == bucket[file_key[c]] IN
         IF s3_client = "ok" /\ o # NoObject /\ o.syntax # "not_utf8"
           THEN pc'[c] = "json" /\ file_content'[c] = <<o>>
           ELSE /\ pc'[c] = "done" /\ file_content'[c] = <<>>
                /\ (s3_client = "ok" /\ o = NoObject) => responses'[c][1].status = 404
    /\ pc'[c] = pc[c] =>
         /\ file_key'[c] = file_key[c] /\ file_content'[c] = file_content[c]
         /\ events'[c] = events[c] /\ responses'[c] = responses[c]
    /\ pc'[c] # pc[c] =>
         /\ UNCHANGED <<S3_BUCKET_NAME, s3_client, bucket>>
         /\ \A d \in ConcClients \ {c} : pc'[d] = pc[d]
    /\ Retrieved(c) => file_content'[c] = file_content[c]
    /\ Done(c) => (Done(c)' /\ responses'[c] = responses[c])

\* C11: under any interleaving of simultaneous calls and of writes to the
\* store, the response of a call is a function of its own key, the
\* configuration and the content its own read returned; a call reads what the
\* store holds when it reads, whatever earlier calls have read, and no step
\* of another call changes its state or its outcome.
C11_RequestsIndependent ==
  /\ [] C11_SameInputsSameResponse
  /\ [][C11_StepIsolation]_vars

\* Two calls for the same key, one answered from the content before a write
\* and one from the content after it.
C11_Witness ==
  \E c, d \in ConcClients :
    /\ c # d /\ Done(c) /\ Done(d)
    /\ file_key[c] = file_key[d]
    /\ Resp(c).status = 200 /\ Resp(c).body.fileType = "lm-eval"
    /\ Resp(d).status = 200 /\ Resp(d).body.fileType = "benchmark"

----------------------------------------------------------------------------
\* Properties of the prompt generator.

\* The index i as three decimal digits.
ThreeDigits(n) == Digit(n \div 100) \o Digit((n \div 10) % 10) \o Digit(n % 10)

HasPiece(s, p) == \E j \in 1 .. Len(s) : s[j] = p

\* C12: a run writes one record per loop index, in index order, and 100
\* records in all; the prompt of every record, of whatever size class, is
\* non-empty and neither starts nor ends with whitespace.
C12_HundredTrimmedRecords ==
  /\ f_lines = range_pos
  /\ f_lines <= 100
  /\ gen_pc = "done" => f_lines = 100
  /\ f_lines > 0 =>
       /\ loop_i = f_lines - 1
       /\ DOMAIN record = {"prompt"}
       /\ len(record.prompt) > 0
       /\ ~IsSpace(record.prompt[1])
       /\ ~IsSpace(record.prompt[Len(record.prompt)])

C12_Witness ==
  /\ gen_pc = "done" /\ f_lines = 100 /\ loop_i = 99
  /\ IsSpace(prompt_text[1]) /\ IsSpace(prompt_text[Len(prompt_text)])
  /\ len(record.prompt) = len(prompt_text) - 2

\* C13: the long record written at loop index i contains the identifier
\* deploy-using-helm- followed by i as three digits, contains the identifier
\* of no other index, and differs from the long record of every other index.
C13_LongRecordsCarryIndex ==
  (/\ f_lines > 0
   /\ rand_val * 100 >= 75 * Resolution
   /\ rand_val * 100 < 90 * Resolution)
  => /\ HasPiece(record.prompt, "deploy-using-helm-" \o ThreeDigits(loop_i))
     /\ ~HasPiece(record.prompt, "deploy-using-helm")
     /\ \A n \in 0 .. 99 :
          n # loop_i =>
            /\ ~HasPiece(record.prompt, "deploy-using-helm-" \o ThreeDigits(n))
            /\ strip(LongPrompt(n)) # record.prompt

C13_Witness ==
  /\ f_lines > 0 /\ loop_i = 7
  /\ HasPiece(record.prompt, "deploy-using-helm-007")
  /\ len(record.prompt) = 551

\* C14: a huge record with noise-line count k (5 to 50) is at least as long
\* as the huge record of every smaller count, and longer than the base huge
\* template; both lengths are taken after the whitespace trim.
C14_HugeLengthGrowsWithNoise ==
  (f_lines > 0 /\ rand_val * 100 >= 90 * Resolution)
  => /\ extra_spam_lines \in 5 .. 50
     /\ len(record.prompt) > len(huge_stack_trace_example)
     /\ \A k \in 5 .. 50 :
          k <= extra_spam_lines =>
            len(strip(HugePrompt(k))) <= len(record.prompt)

C14_Witness ==
  /\ f_lines > 0 /\ extra_spam_lines = 5
  /\ len(prompt_text) = 751 + 5 * 39
  /\ len(record.prompt) = len(prompt_text) - 1

====
